---- MODULE Spec2Model ----
(***************************************************************************)
(* Model of the detection engine of the intrusion-detection dashboard     *)
(* (backend/analyzer.py): a CSV batch of connection rows is parsed and    *)
(* run through the four rule-based detectors; the alerts are concatenated *)
(* and summarised.                                                         *)
(***************************************************************************)
EXTENDS Integers, Sequences, FiniteSets, TLC

VARIABLES
    header,           \* column names in the header row of the CSV file
    csv,              \* rows of the uploaded CSV file, in file order
    raising,          \* the detector that raises on the values of this file, or "none"
    call,             \* the entry point that was called, with its size_threshold
    error,            \* the exception the call raised, or NoError
    frame,            \* the parsed frame (df) the detectors are given
    sorted_frame,     \* the sorted frame (df_sorted) of the frequency detector
    ran,              \* the detectors that have finished, in order of finishing
    request,          \* the request POST /api/analyze received
    response,         \* the response it sent
    temp_file,        \* the temporary copy of the upload
    invoked,          \* number of calls of network_analyzer.analyze_logs
    db,               \* rows of the alerts table
    inserts,          \* what insert_alert returned for each alert of the upload
    runs,             \* number of row blocks written to the file so far
    pc,               \* "upload" while the file is written, "done" after analyze_logs
    port_alerts,      \* result of detect_suspicious_ports
    freq_alerts,      \* result of detect_high_frequency_connections
    protocol_alerts,  \* result of detect_unusual_protocols
    packet_alerts,    \* result of detect_large_packets
    all_alerts,       \* list returned by analyze_logs
    summary           \* result of get_analysis_summary(all_alerts)

parVars == <<frame, sorted_frame, ran>>
apiVars == <<request, response, temp_file, invoked, db, inserts>>
vars == <<header, csv, raising, call, error, runs, pc, port_alerts, freq_alerts,
          protocol_alerts, packet_alerts, all_alerts, summary, parVars, apiVars>>

(***************************************************************************)
(* Bounds of the model.                                                    *)
(***************************************************************************)
\* number of blocks of identical rows a file is made of
MaxRuns == 2

(***************************************************************************)
(* Detection rules set by NetworkAnalyzer.__init__ and by the defaults.    *)
(***************************************************************************)
allowed_ports == {22, 80, 443}
connection_threshold == 10
time_window == 60
size_threshold == 65536
common_protocols ==
    { <<"T", "C", "P">>, <<"U", "D", "P">>, <<"H", "T", "T", "P">>,
      <<"H", "T", "T", "P", "S">> }

(***************************************************************************)
(* Input universe.  A timestamp of the file is the text "HH:MM:SS" of one *)
(* fixed day, written <<hour, minute, second>>; a protocol is the sequence *)
(* of its characters.                                                      *)
(***************************************************************************)
IPs == {"10.0.0.5", "10.0.0.9"}
AllColumns == {"timestamp", "source_ip", "destination_ip", "port", "protocol", "packet_size"}
T0 == <<12, 0, 0>>
Times == {T0, <<12, 1, 0>>, <<12, 1, 1>>}
tcp_upper == <<"T", "C", "P">>
tcp_lower == <<"t", "c", "p">>
tcp_mixed == <<"T", "c", "p">>
icmp == <<"I", "C", "M", "P">>
DefaultPayload == [port |-> 443, protocol |-> tcp_upper, packet_size |-> 500]
ProbePayload == [port |-> 4444, protocol |-> tcp_lower, packet_size |-> size_threshold]
Payloads ==
    { DefaultPayload, ProbePayload,
      [port |-> 22, protocol |-> tcp_mixed, packet_size |-> size_threshold + 1],
      [port |-> 80, protocol |-> icmp,      packet_size |-> 500] }

LateProbe == [port |-> 80, protocol |-> icmp, packet_size |-> 500]

MkRow(ip, t, p) ==
    [timestamp |-> t, source_ip |-> ip, destination_ip |-> "192.168.1.1",
     port |-> p.port, protocol |-> p.protocol, packet_size |-> p.packet_size]

\* the rows a file may hold: the default payload from either source at any
\* time, every payload from the first source and the probe payload from the
\* second at T0, and a later row of the second source with an unusual protocol
Rows ==
    { MkRow(ip, t, DefaultPayload) : ip \in IPs, t \in Times }
    \cup { MkRow("10.0.0.5", T0, p) : p \in Payloads }
    \cup { MkRow("10.0.0.9", T0, ProbePayload) }
    \cup { MkRow("10.0.0.9", <<12, 1, 0>>, LateProbe) }

\* block lengths: a single row, exactly the threshold, one above it
RunLens == {1, connection_threshold, connection_threshold + 1}

Repeat(r, n) == [i \in 1..n |-> r]

(***************************************************************************)
(* Conversions.                                                            *)
(***************************************************************************)
\* pd.to_datetime: text -> point in time (seconds of the day)
to_datetime(t) == t[1] * 3600 + t[2] * 60 + t[3]

\* Timestamp.strftime("%Y-%m-%d %H:%M:%S"): point in time -> text
strftime(d) == <<d \div 3600, (d % 3600) \div 60, d % 60>>

\* str.upper on one character
UpperChar(c) ==
    CASE c = "t" -> "T" [] c = "c" -> "C" [] c = "p" -> "P"
      [] c = "u" -> "U" [] c = "d" -> "D" [] c = "h" -> "H"
      [] c = "s" -> "S" [] c = "i" -> "I" [] c = "m" -> "M"
      [] OTHER -> c

\* Variant of upper: the value is compared as written (no case folding).
upper_as_written(s) == s

\* Series.str.upper on one value
upper(s) == [i \in 1..Len(s) |-> UpperChar(s[i])]

\* Variant of required_columns: only the columns the detectors read.
required_columns_read ==
    <<"timestamp", "source_ip", "port", "protocol", "packet_size">>

\* required_columns of parse_csv_logs
required_columns ==
    <<"timestamp", "source_ip", "destination_ip", "port", "protocol", "packet_size">>

\* missing_columns of parse_csv_logs: the required columns the header lacks
missing_columns(columns) == SelectSeq(required_columns, LAMBDA col : col \notin columns)

\* the missing value pd.read_csv puts in place of an empty cell
NaN == "nan"

\* pd.read_csv on one cell of a text column
read_cell(c) == IF c = "" THEN NaN ELSE c

\* parse_csv_logs on a file with all six columns: the cells are read, the
\* timestamp column is converted, the other columns are kept
parse_csv_logs(file) ==
    [i \in 1..Len(file) |->
        [file[i] EXCEPT !.timestamp = to_datetime(@), !.source_ip = read_cell(@)]]

(***************************************************************************)
(* DataFrame.sort_values('timestamp').  The call uses the default          *)
(* kind='quicksort', which is not a stable sort: rows are ordered by       *)
(* timestamp and the order of rows with equal timestamps is whatever the   *)
(* sort produces.  The detector below only ever reads, of the rows of one  *)
(* source with one timestamp, which row comes first; so every outcome is   *)
(* represented by exchanging, per source, the first row of a tie with      *)
(* another row of that source in the same tie.                             *)
(***************************************************************************)
Min(S) == CHOOSE x \in S : \A y \in S : x <= y

\* the rows with timestamp t, in file order
TieGroup(df, t) == SelectSeq(df, LAMBDA r : r.timestamp = t)

\* positions of g holding a row value for the first time
FirstOcc(g) == {j \in DOMAIN g : \A k \in 1..(j - 1) : g[k] # g[j]}

\* position of the first row of source ip in g
FirstOf(g, ip) == Min({j \in DOMAIN g : g[j].source_ip = ip})

\* g with, for every source, its first row exchanged with the row at h[source]
Exchange(g, h) ==
    [k \in DOMAIN g |->
        LET ip == g[k].source_ip IN
        IF k = FirstOf(g, ip) THEN g[h[ip]]
        ELSE IF k = h[ip] THEN g[FirstOf(g, ip)]
        ELSE g[k]]

\* the orders in which a sort may leave the rows of one tie
TieOrders(g) ==
    LET ips == {g[j].source_ip : j \in DOMAIN g}
        heads == {h \in [ips -> FirstOcc(g)] : \A ip \in ips : g[h[ip]].source_ip = ip}
    IN  {Exchange(g, h) : h \in heads}

RECURSIVE SortedFrom(_, _)
SortedFrom(df, ts) ==
    IF ts = {} THEN {<<>>}
    ELSE LET t == Min(ts) IN
         {g \o rest : g \in TieOrders(TieGroup(df, t)), rest \in SortedFrom(df, ts \ {t})}

\* the set of frames df.sort_values('timestamp') may return
sort_values(df) == SortedFrom(df, {df[i].timestamp : i \in DOMAIN df})

(***************************************************************************)
(* The four detectors.                                                     *)
(***************************************************************************)
SuspiciousPortAlert(row) ==
    [timestamp   |-> strftime(row.timestamp),
     source_ip   |-> row.source_ip,
     port        |-> row.port,
     threat_type |-> "Suspicious Port",
     description |-> [text |-> "Connection to non-standard port detected",
                      port |-> row.port, source_ip |-> row.source_ip]]

\* Variant of detect_suspicious_ports: one alert per distinct offending row.
detect_suspicious_ports_dedup(df) ==
    LET suspicious_ports == SelectSeq(df, LAMBDA r : r.port \notin allowed_ports)
        firsts == SelectSeq([i \in 1..Len(suspicious_ports) |->
                               [row |-> suspicious_ports[i],
                                dup |-> \E k \in 1..(i - 1) : suspicious_ports[k] = suspicious_ports[i]]],
                            LAMBDA e : ~e.dup)
    IN  [i \in 1..Len(firsts) |-> SuspiciousPortAlert(firsts[i].row)]

detect_suspicious_ports(df) ==
    LET suspicious_ports == SelectSeq(df, LAMBDA r : r.port \notin allowed_ports)
    IN  [i \in 1..Len(suspicious_ports) |-> SuspiciousPortAlert(suspicious_ports[i])]

\* df['source_ip'].unique(): the sources in order of first appearance
RECURSIVE unique(_)
unique(ips) ==
    IF ips = <<>> THEN <<>>
    ELSE LET init == unique(SubSeq(ips, 1, Len(ips) - 1))
             last == ips[Len(ips)]
         IN  IF \E k \in DOMAIN init : init[k] = last THEN init ELSE Append(init, last)

\* Variant of window_connections: the end of the window is excluded.
window_connections_open(ip_data, i) ==
    LET start_time == ip_data[i].timestamp
        end_time   == start_time + time_window
    IN  SelectSeq(ip_data, LAMBDA r : r.timestamp >= start_time /\ r.timestamp < end_time)

\* Variant of window_connections: every later row of the source is counted.
window_connections_unbounded(ip_data, i) ==
    LET start_time == ip_data[i].timestamp
    IN  SelectSeq(ip_data, LAMBDA r : r.timestamp >= start_time)

\* the rows of ip_data inside the window that starts at row i
window_connections(ip_data, i) ==
    LET start_time == ip_data[i].timestamp
        end_time   == start_time + time_window
    IN  SelectSeq(ip_data, LAMBDA r : r.timestamp >= start_time /\ r.timestamp <= end_time)

HighFrequencyAlert(source_ip, start_time, window) ==
    [timestamp   |-> strftime(start_time),
     source_ip   |-> source_ip,
     port        |-> window[1].port,
     threat_type |-> "High Frequency Connection",
     description |-> [text |-> "connections in 1 minute", source_ip |-> source_ip,
                      count |-> Len(window), threshold |-> connection_threshold]]

\* Variant of ScanWindows: a window of exactly the threshold already alerts.
RECURSIVE ScanWindows_at_threshold(_, _, _)
ScanWindows_at_threshold(source_ip, ip_data, i) ==
    IF i > Len(ip_data) THEN <<>>
    ELSE LET window == window_connections(ip_data, i) IN
         IF Len(window) >= connection_threshold
         THEN <<HighFrequencyAlert(source_ip, ip_data[i].timestamp, window)>>
         ELSE ScanWindows_at_threshold(source_ip, ip_data, i + 1)

\* Variant of ScanWindows: the scan goes on after an alert (no break).
RECURSIVE ScanWindows_no_break(_, _, _)
ScanWindows_no_break(source_ip, ip_data, i) ==
    IF i > Len(ip_data) THEN <<>>
    ELSE LET window == window_connections(ip_data, i) IN
         IF Len(window) > connection_threshold
         THEN <<HighFrequencyAlert(source_ip, ip_data[i].timestamp, window)>>
              \o ScanWindows_no_break(source_ip, ip_data, i + 1)
         ELSE ScanWindows_no_break(source_ip, ip_data, i + 1)

\* the loop over i in range(len(ip_data)), from row i on: the alert of the
\* first window above the threshold, then break
RECURSIVE ScanWindows(_, _, _)
ScanWindows(source_ip, ip_data, i) ==
    IF i > Len(ip_data) THEN <<>>
    ELSE LET window == window_connections(ip_data, i) IN
         IF Len(window) > connection_threshold
         THEN <<HighFrequencyAlert(source_ip, ip_data[i].timestamp, window)>>
         ELSE ScanWindows(source_ip, ip_data, i + 1)

\* Variant of ScanSource: a source is skipped unless it has more than
\* threshold + 1 rows.
ScanSource_skip_more(df_sorted, source_ip) ==
    LET ip_data == SelectSeq(df_sorted,
                             LAMBDA r : r.source_ip = source_ip /\ source_ip # NaN) IN
    IF Len(ip_data) < connection_threshold + 2 THEN <<>>
    ELSE ScanWindows(source_ip, ip_data, 1)

\* one iteration of the loop over the sources; the missing value equals
\* nothing, itself included
ScanSource(df_sorted, source_ip) ==
    LET ip_data == SelectSeq(df_sorted,
                             LAMBDA r : r.source_ip = source_ip /\ source_ip # NaN) IN
    IF Len(ip_data) < connection_threshold THEN <<>>
    ELSE ScanWindows(source_ip, ip_data, 1)

RECURSIVE ScanSources(_, _, _)
ScanSources(df_sorted, sources, k) ==
    IF k > Len(sources) THEN <<>>
    ELSE ScanSource(df_sorted, sources[k]) \o ScanSources(df_sorted, sources, k + 1)

\* Variant of detect_high_frequency_connections: the sources are taken in the
\* order of the sorted frame.
detect_high_frequency_by_time(df, df_sorted) ==
    ScanSources(df_sorted, unique([i \in DOMAIN df_sorted |-> df_sorted[i].source_ip]), 1)

\* Variant of detect_high_frequency_connections: the rows are scanned in file
\* order (the sort is missing).
detect_high_frequency_unsorted(df, df_sorted) ==
    ScanSources(df, unique([i \in DOMAIN df |-> df[i].source_ip]), 1)

\* detect_high_frequency_connections, given the frame the sort returned
detect_high_frequency_connections(df, df_sorted) ==
    ScanSources(df_sorted, unique([i \in DOMAIN df |-> df[i].source_ip]), 1)

UnusualProtocolAlert(row) ==
    [timestamp   |-> strftime(row.timestamp),
     source_ip   |-> row.source_ip,
     port        |-> row.port,
     threat_type |-> "Unusual Protocol",
     description |-> [text |-> "Unusual protocol detected",
                      protocol |-> row.protocol, source_ip |-> row.source_ip]]

detect_unusual_protocols(df) ==
    LET unusual_protocols ==
            SelectSeq(df, LAMBDA r : upper(r.protocol) \notin common_protocols)
    IN  [i \in 1..Len(unusual_protocols) |-> UnusualProtocolAlert(unusual_protocols[i])]

LargePacketAlert(row, threshold) ==
    [timestamp   |-> strftime(row.timestamp),
     source_ip   |-> row.source_ip,
     port        |-> row.port,
     threat_type |-> "Large Packet",
     description |-> [text |-> "Large packet detected", bytes |-> row.packet_size,
                      source_ip |-> row.source_ip, threshold |-> threshold]]

\* Variant of detect_large_packets: a packet of exactly the threshold alerts.
detect_large_packets_at_threshold(df, threshold) ==
    LET large_packets == SelectSeq(df, LAMBDA r : r.packet_size >= threshold)
    IN  [i \in 1..Len(large_packets) |-> LargePacketAlert(large_packets[i], threshold)]

\* detect_large_packets(df, size_threshold): the threshold is a parameter,
\* 65536 when the caller gives none
detect_large_packets(df, threshold) ==
    LET large_packets == SelectSeq(df, LAMBDA r : r.packet_size > threshold)
    IN  [i \in 1..Len(large_packets) |-> LargePacketAlert(large_packets[i], threshold)]

(***************************************************************************)
(* get_analysis_summary: counts per threat type (only the types present),  *)
(* number of distinct sources, number of alerts.                           *)
(***************************************************************************)
\* Variant of CountThreats: a threat type seen again keeps its count.
RECURSIVE CountThreats_presence(_, _)
CountThreats_presence(alerts, n) ==
    IF n = 0 THEN [t \in {} |-> 0]
    ELSE LET threat_counts == CountThreats_presence(alerts, n - 1)
             t == alerts[n].threat_type
         IN  [u \in DOMAIN threat_counts \cup {t} |->
                 IF u = t THEN 1 ELSE threat_counts[u]]

RECURSIVE CountThreats(_, _)
CountThreats(alerts, n) ==
    IF n = 0 THEN [t \in {} |-> 0]
    ELSE LET threat_counts == CountThreats(alerts, n - 1)
             t == alerts[n].threat_type
         IN  IF t \in DOMAIN threat_counts
             THEN [threat_counts EXCEPT ![t] = @ + 1]
             ELSE [u \in DOMAIN threat_counts \cup {t} |->
                      IF u = t THEN 1 ELSE threat_counts[u]]

get_analysis_summary(alerts) ==
    [total_alerts      |-> Len(alerts),
     unique_source_ips |-> Cardinality({alerts[i].source_ip : i \in DOMAIN alerts}),
     threat_breakdown  |-> CountThreats(alerts, Len(alerts))]

(***************************************************************************)
(* analyze_logs.  A call ends with the list it returns or with the         *)
(* exception it re-raises; an Outcome holds both, and the lists of the     *)
(* detectors that ran.                                                     *)
(***************************************************************************)
NoError == [type |-> "none"]

Detectors ==
    <<"detect_suspicious_ports", "detect_high_frequency_connections",
      "detect_unusual_protocols", "detect_large_packets">>

Outcome(e, ports, freq, protocols, packets, returned) ==
    [error |-> e, port_alerts |-> ports, freq_alerts |-> freq,
     protocol_alerts |-> protocols, packet_alerts |-> packets, all_alerts |-> returned]

\* the exception of a detector that raises (a value of the frame it cannot
\* convert or compare)
DetectorError(detector) == [type |-> "Exception", raised_in |-> detector]

\* Variant of RunDetectors: the lists are joined with the stateless detectors
\* first and the high-frequency detector last.
RunDetectors_frequency_last(df, df_sorted, failing) ==
    LET ports     == detect_suspicious_ports(df)
        freq      == detect_high_frequency_connections(df, df_sorted)
        protocols == detect_unusual_protocols(df)
        packets   == detect_large_packets(df, size_threshold)
    IN  Outcome(NoError, ports, freq, protocols, packets,
                ports \o protocols \o packets \o freq)

\* Variant of RunDetectors: a detector that raises is skipped, and the lists
\* of the other detectors are returned.
RunDetectors_skip_failed(df, df_sorted, failing) ==
    LET ports     == IF failing = Detectors[1] THEN <<>> ELSE detect_suspicious_ports(df)
        freq      == IF failing = Detectors[2] THEN <<>>
                     ELSE detect_high_frequency_connections(df, df_sorted)
        protocols == IF failing = Detectors[3] THEN <<>> ELSE detect_unusual_protocols(df)
        packets   == IF failing = Detectors[4] THEN <<>>
                     ELSE detect_large_packets(df, size_threshold)
    IN  Outcome(NoError, ports, freq, protocols, packets,
                ports \o freq \o protocols \o packets)

\* the four detector calls of analyze_logs on the parsed frame, in order; the
\* first detector that raises ends the call, and nothing is returned
RunDetectors(df, df_sorted, failing) ==
    LET ports     == detect_suspicious_ports(df)
        freq      == detect_high_frequency_connections(df, df_sorted)
        protocols == detect_unusual_protocols(df)
        packets   == detect_large_packets(df, size_threshold)
        e         == DetectorError(failing)
    IN  IF failing = Detectors[1] THEN Outcome(e, <<>>, <<>>, <<>>, <<>>, <<>>)
        ELSE IF failing = Detectors[2] THEN Outcome(e, ports, <<>>, <<>>, <<>>, <<>>)
        ELSE IF failing = Detectors[3] THEN Outcome(e, ports, freq, <<>>, <<>>, <<>>)
        ELSE IF failing = Detectors[4] THEN Outcome(e, ports, freq, protocols, <<>>, <<>>)
        ELSE Outcome(NoError, ports, freq, protocols, packets,
                     ports \o freq \o protocols \o packets)

\* the outcomes analyze_logs may have on a file: parse_csv_logs raises when a
\* required column is missing, else the detectors run on the parsed frame
analyze_logs(columns, file, failing) ==
    IF missing_columns(columns) # <<>>
    THEN {Outcome([type |-> "ValueError", missing |-> missing_columns(columns)],
                  <<>>, <<>>, <<>>, <<>>, <<>>)}
    ELSE LET df == parse_csv_logs(file) IN
         {RunDetectors(df, df_sorted, failing) : df_sorted \in sort_values(df)}

(***************************************************************************)
(* The state machine.                                                      *)
(***************************************************************************)
NoSummary == [total_alerts |-> 0, unique_source_ips |-> 0,
              threat_breakdown |-> [t \in {} |-> 0]]

NoCall == [op |-> "none", size_threshold |-> size_threshold]

NoRequest == [method |-> "none"]

NoResponse == [status |-> 0]

\* everything but what the client chooses, with the rows the alerts table
\* holds from earlier uploads
FreshWith(stored) ==
    /\ csv = <<>>
    /\ runs = 0
    /\ pc = "upload"
    /\ call = NoCall
    /\ error = NoError
    /\ port_alerts = <<>>
    /\ freq_alerts = <<>>
    /\ protocol_alerts = <<>>
    /\ packet_alerts = <<>>
    /\ all_alerts = <<>>
    /\ summary = NoSummary
    /\ frame = <<>>
    /\ sorted_frame = <<>>
    /\ ran = <<>>
    /\ request = NoRequest
    /\ response = NoResponse
    /\ temp_file = "none"
    /\ invoked = 0
    /\ db = stored
    /\ inserts = <<>>

\* the same with an empty alerts table
Fresh == FreshWith(<<>>)

\* a well-formed file: all six columns, values every detector can read
Init ==
    /\ header = AllColumns
    /\ raising = "none"
    /\ Fresh

\* the columns of row r that the header names
Project(r, columns) == [col \in columns |-> r[col]]

\* the client writes a block of n equal rows to the file it will upload
AppendRows(r, n) ==
    /\ pc = "upload"
    /\ runs < MaxRuns
    /\ csv' = csv \o Repeat(Project(r, header), n)
    /\ runs' = runs + 1
    /\ UNCHANGED <<header, raising, call, error, pc, port_alerts, freq_alerts,
                   protocol_alerts, packet_alerts, all_alerts, summary, parVars, apiVars>>

\* analyze_logs on the uploaded file, followed by get_analysis_summary when
\* it returned
AnalyzeLogs ==
    /\ pc = "upload"
    /\ \E out \in analyze_logs(header, csv, raising) :
          /\ error' = out.error
          /\ port_alerts' = out.port_alerts
          /\ freq_alerts' = out.freq_alerts
          /\ protocol_alerts' = out.protocol_alerts
          /\ packet_alerts' = out.packet_alerts
          /\ all_alerts' = out.all_alerts
          /\ summary' = IF out.error = NoError
                        THEN get_analysis_summary(out.all_alerts)
                        ELSE NoSummary
    /\ call' = [op |-> "analyze_logs", size_threshold |-> size_threshold]
    /\ pc' = "done"
    /\ UNCHANGED <<header, csv, raising, runs, parVars, apiVars>>

Next ==
    \/ \E r \in Rows, n \in RunLens : AppendRows(r, n)
    \/ AnalyzeLogs

Spec == Init /\ [][Next]_vars

(***************************************************************************)
(* Faulty input: a header that lacks columns, an empty source_ip cell, a   *)
(* value on which a detector raises (an empty port cell makes int() raise  *)
(* in the port and frequency detectors, a text in the packet_size column   *)
(* makes the comparison of the packet detector raise, a protocol column    *)
(* without text makes .str raise), and detect_large_packets called with a  *)
(* threshold of the caller's choice.                                       *)
(***************************************************************************)
Headers ==
    { AllColumns, AllColumns \ {"protocol"}, AllColumns \ {"destination_ip"},
      AllColumns \ {"port", "packet_size"} }

FaultRows ==
    { MkRow(ip, T0, p) : ip \in {"10.0.0.5", ""}, p \in {DefaultPayload, ProbePayload} }
    \cup { MkRow("10.0.0.5", T0, LateProbe) }

SizeThresholds == {size_threshold, 0 - 1}

InitFaults ==
    /\ \/ header \in Headers /\ raising = "none"
       \/ header = AllColumns /\ raising \in {Detectors[k] : k \in DOMAIN Detectors}
    /\ Fresh

\* detect_large_packets called on the parsed file with the threshold t
DetectLargePackets(t) ==
    /\ pc = "upload"
    /\ missing_columns(header) = <<>>
    /\ call' = [op |-> "detect_large_packets", size_threshold |-> t]
    /\ IF raising = Detectors[4]
       THEN /\ error' = DetectorError(raising)
            /\ packet_alerts' = <<>>
       ELSE /\ error' = NoError
            /\ packet_alerts' = detect_large_packets(parse_csv_logs(csv), t)
    /\ pc' = "done"
    /\ UNCHANGED <<header, csv, raising, runs, port_alerts, freq_alerts,
                   protocol_alerts, all_alerts, summary, parVars, apiVars>>

NextFaults ==
    \/ \E r \in FaultRows, n \in {1, connection_threshold + 1} : AppendRows(r, n)
    \/ AnalyzeLogs
    \/ \E t \in SizeThresholds : DetectLargePackets(t)

SpecFaults == InitFaults /\ [][NextFaults]_vars

(***************************************************************************)
(* The detectors run in any order.  Each detector reads the parsed frame   *)
(* and the three values of the analyzer, keeps its intermediate frames in  *)
(* local variables and appends to a list of its own; the frequency         *)
(* detector is two steps, the sort into df_sorted and the scan.            *)
(***************************************************************************)
ParRows ==
    { MkRow("10.0.0.5", T0, ProbePayload),
      MkRow("10.0.0.5", T0, [port |-> 80, protocol |-> icmp, packet_size |-> 500]),
      MkRow("10.0.0.9", <<12, 1, 0>>, LateProbe) }

Finished(step) == \E k \in DOMAIN ran : ran[k] = step

\* Variant of frame_after_sort: the frame is sorted in place.
frame_after_sort_inplace(d, s) == s

\* the frame sort_values was called on, once it has returned the sorted frame
\* s: sort_values builds a new frame and leaves d as it was
frame_after_sort(d, s) == d

ParseCsvLogs ==
    /\ pc = "upload"
    /\ missing_columns(header) = <<>>
    /\ frame' = parse_csv_logs(csv)
    /\ pc' = "detecting"
    /\ UNCHANGED <<header, csv, raising, call, error, runs, port_alerts, freq_alerts,
                   protocol_alerts, packet_alerts, all_alerts, summary,
                   sorted_frame, ran, apiVars>>

DetectSuspiciousPorts ==
    /\ pc = "detecting"
    /\ ~Finished(Detectors[1])
    /\ port_alerts' = detect_suspicious_ports(frame)
    /\ ran' = Append(ran, Detectors[1])
    /\ UNCHANGED <<header, csv, raising, call, error, runs, pc, freq_alerts,
                   protocol_alerts, packet_alerts, all_alerts, summary,
                   frame, sorted_frame, apiVars>>

SortValues ==
    /\ pc = "detecting"
    /\ ~Finished("sort_values")
    /\ \E s \in sort_values(frame) :
          /\ sorted_frame' = s
          /\ frame' = frame_after_sort(frame, s)
    /\ ran' = Append(ran, "sort_values")
    /\ UNCHANGED <<header, csv, raising, call, error, runs, pc, port_alerts, freq_alerts,
                   protocol_alerts, packet_alerts, all_alerts, summary, apiVars>>

ScanHighFrequency ==
    /\ pc = "detecting"
    /\ Finished("sort_values")
    /\ ~Finished(Detectors[2])
    /\ freq_alerts' = detect_high_frequency_connections(frame, sorted_frame)
    /\ ran' = Append(ran, Detectors[2])
    /\ UNCHANGED <<header, csv, raising, call, error, runs, pc, port_alerts,
                   protocol_alerts, packet_alerts, all_alerts, summary,
                   frame, sorted_frame, apiVars>>

DetectUnusualProtocols ==
    /\ pc = "detecting"
    /\ ~Finished(Detectors[3])
    /\ protocol_alerts' = detect_unusual_protocols(frame)
    /\ ran' = Append(ran, Detectors[3])
    /\ UNCHANGED <<header, csv, raising, call, error, runs, pc, port_alerts,
                   freq_alerts, packet_alerts, all_alerts, summary,
                   frame, sorted_frame, apiVars>>

DetectLargePacketsDefault ==
    /\ pc = "detecting"
    /\ ~Finished(Detectors[4])
    /\ packet_alerts' = detect_large_packets(frame, size_threshold)
    /\ ran' = Append(ran, Detectors[4])
    /\ UNCHANGED <<header, csv, raising, call, error, runs, pc, port_alerts,
                   freq_alerts, protocol_alerts, all_alerts, summary,
                   frame, sorted_frame, apiVars>>

\* the lists are joined in the order of the rules once every detector is done
Merge ==
    /\ pc = "detecting"
    /\ \A k \in DOMAIN Detectors : Finished(Detectors[k])
    /\ all_alerts' = port_alerts \o freq_alerts \o protocol_alerts \o packet_alerts
    /\ summary' = get_analysis_summary(all_alerts')
    /\ call' = [op |-> "detectors", size_threshold |-> size_threshold]
    /\ pc' = "done"
    /\ UNCHANGED <<header, csv, raising, error, runs, port_alerts, freq_alerts,
                   protocol_alerts, packet_alerts, parVars, apiVars>>

NextPar ==
    \/ \E r \in ParRows, n \in {1, connection_threshold + 1} : AppendRows(r, n)
    \/ ParseCsvLogs
    \/ DetectSuspiciousPorts
    \/ SortValues
    \/ ScanHighFrequency
    \/ DetectUnusualProtocols
    \/ DetectLargePacketsDefault
    \/ Merge

SpecPar == Init /\ [][NextPar]_vars

(***************************************************************************)
(* POST /api/analyze.  The request carries the client's file in its 'file' *)
(* part or has no such part; a file name is the sequence of its            *)
(* characters.  An insert fails on the missing value (source_ip is NOT     *)
(* NULL) and may fail on one further alert for a reason of the database.   *)
(***************************************************************************)
dot_csv == <<".", "c", "s", "v">>

Filenames ==
    { <<>>, <<"l", "o", "g">> \o dot_csv, <<"l", "o", "g", ".", "t", "x", "t">>,
      <<"l", "o", "g", ".", "C", "S", "V">> }

Requests ==
    { [method |-> "POST", has_file |-> FALSE, filename |-> <<>>] }
    \cup { [method |-> "POST", has_file |-> TRUE, filename |-> f] : f \in Filenames }

ApiRows ==
    { MkRow(ip, T0, ProbePayload) : ip \in {"10.0.0.5", ""} }
    \cup { MkRow("10.0.0.5", T0, DefaultPayload) }

\* str.endswith
endswith(str, suffix) ==
    /\ Len(str) >= Len(suffix)
    /\ SubSeq(str, Len(str) - Len(suffix) + 1, Len(str)) = suffix

\* Variant of validate_upload: only the file name is checked.
validate_upload_name_only(req) ==
    IF req.filename = <<>> THEN "No file selected"
    ELSE IF ~endswith(req.filename, dot_csv) THEN "File must be a CSV file"
    ELSE ""

\* the three checks of the handler on the request: the error of the first
\* check that fails, or "" when the request passes
validate_upload(req) ==
    IF ~req.has_file THEN "No file uploaded"
    ELSE IF req.filename = <<>> THEN "No file selected"
    ELSE IF ~endswith(req.filename, dot_csv) THEN "File must be a CSV file"
    ELSE ""

\* what insert_alert returns: False when the INSERT raises sqlite3.Error, as
\* it does on the missing value and on a fault of the database, else True
insert_alert(alert, fault) == ~fault /\ alert.source_ip # NaN

\* the return values of the handler's loop over the alerts, when the insert
\* of alert number failed (0: none) meets a fault of the database
insert_results(alerts, failed) ==
    [k \in DOMAIN alerts |-> insert_alert(alerts[k], k = failed)]

\* stored_count of the handler: the inserts that returned True
stored_count(results) == Len(SelectSeq(results, LAMBDA success : success))

\* Variant of inserted: the loop ends at the first insert that fails.
inserted_until_failure(alerts, failed) ==
    LET results == insert_results(alerts, failed)
        stop == IF \A k \in DOMAIN alerts : results[k] THEN Len(alerts) + 1
                ELSE CHOOSE k \in DOMAIN alerts :
                        ~results[k] /\ \A j \in 1..(k - 1) : results[j]
    IN  SubSeq(alerts, 1, stop - 1)

\* insert_alert on each alert of the list in turn: the alerts the table takes
\* when the insert of alert number failed (0: none) fails in the database
inserted(alerts, failed) ==
    LET tried == [k \in DOMAIN alerts |->
                    [alert |-> alerts[k],
                     success |-> insert_alert(alerts[k], k = failed)]]
        taken == SelectSeq(tried, LAMBDA e : e.success)
    IN  [k \in DOMAIN taken |-> taken[k].alert]

\* Variant of persisted: the alerts the detectors collected before the
\* failure are inserted.
persisted_collected(out, failed) ==
    inserted(out.port_alerts \o out.freq_alerts \o out.protocol_alerts
                 \o out.packet_alerts, failed)

\* the rows the handler adds to the table for an outcome of analyze_logs: the
\* loop over the alerts is reached only when analyze_logs returned
persisted(out, failed) ==
    IF out.error # NoError THEN <<>> ELSE inserted(out.all_alerts, failed)

\* the temporary file once the handler is left: the finally clause unlinks
\* it whether analyze_logs returned or raised
temp_file_after(out) == "removed"

InitApi ==
    /\ header \in {AllColumns, AllColumns \ {"protocol"}}
    /\ raising \in {"none", Detectors[4]}
    /\ Fresh

\* the tables an earlier upload of a one-row file leaves behind
EarlierUploads ==
    { inserted(out.all_alerts, 0) :
        out \in UNION { analyze_logs(AllColumns, <<r>>, "none") : r \in ApiRows } }

\* the server after an earlier upload
InitApiRuns ==
    /\ header \in {AllColumns, AllColumns \ {"protocol"}}
    /\ raising \in {"none", Detectors[4]}
    /\ \E stored \in EarlierUploads : FreshWith(stored)

\* the handler of POST /api/analyze, from the request to the response
ApiAnalyze(req) ==
    /\ pc = "upload"
    /\ request' = req
    /\ call' = [op |-> "POST /api/analyze", size_threshold |-> size_threshold]
    /\ pc' = "done"
    /\ IF validate_upload(req) # ""
       THEN /\ response' = [status |-> 400, success |-> FALSE,
                            error |-> validate_upload(req)]
            /\ UNCHANGED <<error, port_alerts, freq_alerts, protocol_alerts,
                           packet_alerts, all_alerts, summary, temp_file, invoked, db,
                           inserts>>
       ELSE /\ invoked' = invoked + 1
            /\ \E out \in analyze_logs(header, csv, raising) :
                  /\ error' = out.error
                  /\ port_alerts' = out.port_alerts
                  /\ freq_alerts' = out.freq_alerts
                  /\ protocol_alerts' = out.protocol_alerts
                  /\ packet_alerts' = out.packet_alerts
                  /\ all_alerts' = out.all_alerts
                  /\ temp_file' = temp_file_after(out)
                  /\ IF out.error # NoError
                     THEN /\ db' = db \o persisted(out, 0)
                          /\ inserts' = <<>>
                          /\ summary' = NoSummary
                          /\ response' = [status |-> 500, success |-> FALSE,
                                          error |-> out.error]
                     ELSE \E failed \in {0} \cup DOMAIN out.all_alerts :
                          /\ db' = db \o persisted(out, failed)
                          /\ inserts' = insert_results(out.all_alerts, failed)
                          /\ summary' = get_analysis_summary(out.all_alerts)
                          /\ response' =
                                [status |-> 200, success |-> TRUE,
                                 alerts_generated |-> Len(out.all_alerts),
                                 alerts_stored |->
                                     stored_count(insert_results(out.all_alerts, failed)),
                                 summary |-> summary']
    /\ UNCHANGED <<header, csv, raising, runs, parVars>>

NextApi ==
    \/ \E r \in ApiRows, n \in {1, connection_threshold + 1} : AppendRows(r, n)
    \/ \E req \in Requests : ApiAnalyze(req)

SpecApi == InitApi /\ [][NextApi]_vars

SpecApiRuns == InitApiRuns /\ [][NextApi]_vars

(***************************************************************************)
(* Vocabulary of the properties: stated over the rows of the file, not     *)
(* over the detectors' own definitions.                                    *)
(***************************************************************************)
Done == pc = "done" /\ call.op = "analyze_logs" /\ error = NoError

\* point in time of row i of the file
TimeOf(i) == to_datetime(csv[i].timestamp)

\* the rows of the file that belong to source ip
RowsOf(ip) == {i \in DOMAIN csv : csv[i].source_ip = ip}

\* the rows of ip with a timestamp in [t, t + time_window], both ends included
InWindow(ip, t) == {i \in RowsOf(ip) : t <= TimeOf(i) /\ TimeOf(i) <= t + time_window}

\* the timestamps of the rows of ip: the starts of its windows
StartsOf(ip) == {TimeOf(i) : i \in RowsOf(ip)}

\* the window starts of ip whose window holds more than the threshold
Qualifying(ip) ==
    {t \in StartsOf(ip) : Cardinality(InWindow(ip, t)) > connection_threshold}

\* the high-frequency alerts emitted for ip
FreqAlertsOf(ip) == {k \in DOMAIN freq_alerts : freq_alerts[k].source_ip = ip}

\* the rows of ip whose timestamp text is the one the alert carries
StartRows(a) == {i \in RowsOf(a.source_ip) : csv[i].timestamp = a.timestamp}

SingleSource == Cardinality({csv[i].source_ip : i \in DOMAIN csv}) = 1

WithinOneSpan == \A i, j \in DOMAIN csv : TimeOf(j) - TimeOf(i) <= time_window

Benign ==
    \A i \in DOMAIN csv :
        /\ csv[i].port \in {22, 80, 443}
        /\ csv[i].protocol = <<"T", "C", "P">>
        /\ csv[i].packet_size <= 65536

\* C1: a one-source batch of exactly connection_threshold rows inside one
\* 60-second span yields no high-frequency alert; with one row more it yields
\* exactly one, and if those rows use allowed ports, TCP and small packets
\* that alert is the whole result, with total_alerts = 1 and
\* unique_source_ips = 1.
C1_ThresholdBoundary ==
    (Done /\ SingleSource /\ WithinOneSpan) =>
        /\ Len(csv) = connection_threshold => freq_alerts = <<>>
        /\ Len(csv) = connection_threshold + 1 =>
              /\ Len(freq_alerts) = 1
              /\ freq_alerts[1].threat_type = "High Frequency Connection"
              /\ Benign =>
                    /\ all_alerts = freq_alerts
                    /\ summary.total_alerts = 1
                    /\ summary.unique_source_ips = 1

C1_Witness ==
    /\ Done /\ SingleSource /\ WithinOneSpan /\ Benign
    /\ Len(csv) = connection_threshold + 1
    /\ \E i, j \in DOMAIN csv : TimeOf(j) - TimeOf(i) = time_window
    /\ Len(all_alerts) = 1
    /\ summary.total_alerts = 1

\* C2: the detector's output holds at most one high-frequency alert per
\* source, however many of the source's windows exceed the threshold.
C2_AtMostOnePerSource ==
    Done => \A ip \in IPs : Cardinality(FreqAlertsOf(ip)) <= 1

C2_Witness ==
    /\ Done
    /\ \E ip \in IPs :
          /\ Cardinality(Qualifying(ip)) >= 2
          /\ Cardinality(FreqAlertsOf(ip)) = 1

\* C3: the timestamp of a source's alert is the smallest timestamp t of the
\* source's rows such that more than connection_threshold of its rows lie in
\* [t, t + time_window]; the description states that number of rows and the
\* configured threshold.
C3_FirstQualifyingWindow ==
    Done =>
        \A k \in DOMAIN freq_alerts :
            LET a  == freq_alerts[k]
                ip == a.source_ip
                q  == Qualifying(ip)
            IN  /\ q # {}
                /\ StartRows(a) # {}
                /\ \A i \in StartRows(a) : TimeOf(i) = Min(q)
                /\ a.description.count = Cardinality(InWindow(ip, Min(q)))
                /\ a.description.threshold = connection_threshold

\* an alert whose window is not the source's earliest one
C3_Witness ==
    /\ Done
    /\ \E k \in DOMAIN freq_alerts :
          \E i \in StartRows(freq_alerts[k]), j \in RowsOf(freq_alerts[k].source_ip) :
              TimeOf(j) < TimeOf(i)

\* C4: the port of a high-frequency alert is the port of the row that is
\* earliest in the file among the source's rows with the window-start
\* timestamp (stable sort by timestamp).
C4_PortOfEarliestRow ==
    Done =>
        \A k \in DOMAIN freq_alerts :
            LET a == freq_alerts[k] IN
            StartRows(a) # {} /\ a.port = csv[Min(StartRows(a))].port

\* What the code does guarantee about the port: it is the port of one of the
\* source's rows that carry the window-start timestamp.
PortOfSomeStartRow ==
    Done =>
        \A k \in DOMAIN freq_alerts :
            \E i \in StartRows(freq_alerts[k]) : freq_alerts[k].port = csv[i].port

\* C5: the window is inclusive at both ends: a source has an alert exactly
\* when, for one of its rows r, the rows with a timestamp from r's up to and
\* including r's plus time_window number more than the threshold, and the
\* count stated by the alert is the number of rows from the window start up to
\* and including the start plus time_window.
C5_InclusiveWindow ==
    Done =>
        /\ \A ip \in IPs :
              (FreqAlertsOf(ip) # {}) <=>
              (\E t \in StartsOf(ip) :
                   Cardinality({j \in RowsOf(ip) :
                       t <= TimeOf(j) /\ TimeOf(j) <= t + time_window})
                     > connection_threshold)
        /\ \A k \in DOMAIN freq_alerts :
              \A t \in {TimeOf(i) : i \in StartRows(freq_alerts[k])} :
                  freq_alerts[k].description.count =
                      Cardinality({j \in RowsOf(freq_alerts[k].source_ip) :
                          TimeOf(j) = t
                          \/ (t < TimeOf(j) /\ TimeOf(j) < t + time_window)
                          \/ TimeOf(j) = t + time_window})

\* an alert that needs both the rows at the window start and the rows at
\* exactly the start plus time_window to exceed the threshold
C5_Witness ==
    /\ Done
    /\ \E k \in DOMAIN freq_alerts :
          \E i \in StartRows(freq_alerts[k]) :
              LET ip == freq_alerts[k].source_ip
                  w  == InWindow(ip, TimeOf(i))
              IN  /\ \E j \in w : TimeOf(j) = TimeOf(i) + time_window
                  /\ Cardinality({j \in w : TimeOf(j) < TimeOf(i) + time_window})
                        <= connection_threshold
                  /\ Cardinality({j \in w : TimeOf(j) > TimeOf(i)})
                        <= connection_threshold

\* C6: the high-frequency alert of a source is the same whatever the other
\* sources' rows are: it equals the alert of every run over the source's own
\* rows alone (presence, timestamp, port, description).
C6_PerSourceIsolation ==
    Done =>
        \A ip \in IPs :
            LET own == parse_csv_logs(SelectSeq(csv, LAMBDA r : r.source_ip = ip)) IN
            \A own_sorted \in sort_values(own) :
                detect_high_frequency_connections(own, own_sorted)
                    = SelectSeq(freq_alerts, LAMBDA a : a.source_ip = ip)

\* Apart from the port, the alert of a source does not depend on the other
\* sources' rows.
WithoutPort(alerts) == [k \in DOMAIN alerts |-> [alerts[k] EXCEPT !.port = 0]]

IsolationApartFromPort ==
    Done =>
        \A ip \in IPs :
            LET own == parse_csv_logs(SelectSeq(csv, LAMBDA r : r.source_ip = ip)) IN
            \A own_sorted \in sort_values(own) :
                WithoutPort(detect_high_frequency_connections(own, own_sorted))
                    = WithoutPort(SelectSeq(freq_alerts, LAMBDA a : a.source_ip = ip))

\* C7: a source with at least connection_threshold rows, none of whose
\* windows holds more than connection_threshold of them, gets no
\* high-frequency alert.
C7_ThresholdIsPerWindow ==
    Done =>
        \A ip \in IPs :
            (/\ Cardinality(RowsOf(ip)) >= connection_threshold
             /\ \A t \in StartsOf(ip) :
                   Cardinality(InWindow(ip, t)) <= connection_threshold)
            => FreqAlertsOf(ip) = {}

\* more rows than the threshold in the batch, but in no window
C7_Witness ==
    /\ Done
    /\ \E ip \in IPs :
          /\ Cardinality(RowsOf(ip)) > connection_threshold
          /\ Qualifying(ip) = {}
          /\ FreqAlertsOf(ip) = {}

\* what an alert carries of its triggering row
KeyOf(r) == <<r.timestamp, r.source_ip, r.port>>

\* the rows of the file with the timestamp, source and port an alert carries
Referenced(a) == {i \in DOMAIN csv : KeyOf(csv[i]) = KeyOf(a)}

\* the alerts of a list that carry the timestamp, source and port key
Referencing(alerts, key) == {k \in DOMAIN alerts : KeyOf(alerts[k]) = key}

\* C8: there is exactly one Suspicious Port alert for every row whose port is
\* not in {22, 80, 443}, none for the other rows, repeated rows are not
\* deduplicated, and every alert carries the timestamp, source and port of a
\* row with such a port.
C8_OneAlertPerSuspiciousPort ==
    Done =>
        LET bad == {i \in DOMAIN csv : csv[i].port \notin {22, 80, 443}} IN
        /\ Len(port_alerts) = Cardinality(bad)
        /\ \A k \in DOMAIN port_alerts :
              /\ port_alerts[k].threat_type = "Suspicious Port"
              /\ Referenced(port_alerts[k]) # {}
              /\ Referenced(port_alerts[k]) \subseteq bad
        /\ \A key \in {KeyOf(csv[i]) : i \in bad} :
              Cardinality(Referencing(port_alerts, key))
                  = Cardinality({j \in DOMAIN csv : KeyOf(csv[j]) = key})

\* repeated offending rows next to rows with an allowed port
C8_Witness ==
    /\ Done
    /\ \E i, j \in DOMAIN csv : i # j /\ csv[i] = csv[j] /\ csv[i].port \notin {22, 80, 443}
    /\ \E i \in DOMAIN csv : csv[i].port = 22
    /\ Len(port_alerts) >= connection_threshold

LetterPairs ==
    { <<"t", "T">>, <<"c", "C">>, <<"p", "P">>, <<"u", "U">>, <<"d", "D">>,
      <<"h", "H">>, <<"s", "S">>, <<"i", "I">>, <<"m", "M">> }

SameLetter(a, b) == a = b \/ <<a, b>> \in LetterPairs \/ <<b, a>> \in LetterPairs

EqualsIgnoreCase(s, w) ==
    Len(s) = Len(w) /\ \A i \in DOMAIN s : SameLetter(s[i], w[i])

\* a protocol that is TCP, UDP, HTTP or HTTPS in some mix of cases
KnownProtocol(s) ==
    \E w \in { <<"T", "C", "P">>, <<"U", "D", "P">>, <<"H", "T", "T", "P">>,
               <<"H", "T", "T", "P", "S">> } : EqualsIgnoreCase(s, w)

\* C9: protocols are compared without regard to case: a row whose protocol is
\* TCP, UDP, HTTP or HTTPS in any mix of cases gets no Unusual Protocol alert,
\* and every other row gets exactly one.
C9_ProtocolCaseInsensitive ==
    Done =>
        LET odd == {i \in DOMAIN csv : ~KnownProtocol(csv[i].protocol)} IN
        /\ Len(protocol_alerts) = Cardinality(odd)
        /\ \A k \in DOMAIN protocol_alerts :
              /\ protocol_alerts[k].threat_type = "Unusual Protocol"
              /\ ~KnownProtocol(protocol_alerts[k].description.protocol)
              /\ Referenced(protocol_alerts[k]) # {}
              /\ Referenced(protocol_alerts[k]) \subseteq odd

\* lower-case and mixed-case TCP rows next to an ICMP row
C9_Witness ==
    /\ Done
    /\ \E i \in DOMAIN csv : csv[i].protocol \in {<<"t", "c", "p">>, <<"T", "c", "p">>}
    /\ \E i \in DOMAIN csv : csv[i].protocol = <<"I", "C", "M", "P">>
    /\ Len(protocol_alerts) >= 1
    /\ Len(protocol_alerts) < Len(csv)

\* C10: the size comparison is strict: the number of Large Packet alerts is
\* the number of rows with packet_size > size_threshold, a row of exactly
\* size_threshold bytes gets no alert and a row of size_threshold + 1 bytes
\* gets one.
C10_LargePacketStrict ==
    Done =>
        LET big == {i \in DOMAIN csv : csv[i].packet_size > size_threshold} IN
        /\ Len(packet_alerts) = Cardinality(big)
        /\ \A k \in DOMAIN packet_alerts :
              /\ packet_alerts[k].threat_type = "Large Packet"
              /\ packet_alerts[k].description.bytes > size_threshold
              /\ Referenced(packet_alerts[k]) # {}
              /\ Referenced(packet_alerts[k]) \subseteq big
        /\ \A i \in DOMAIN csv :
              csv[i].packet_size = size_threshold =>
                  Referencing(packet_alerts, KeyOf(csv[i])) = {}

\* a row of exactly size_threshold bytes next to a row of one byte more
C10_Witness ==
    /\ Done
    /\ \E i \in DOMAIN csv : csv[i].packet_size = size_threshold
    /\ \E i \in DOMAIN csv : csv[i].packet_size = size_threshold + 1
    /\ Len(packet_alerts) >= 1
    /\ Len(packet_alerts) < Len(csv)

(***************************************************************************)
(* The alert list of analyze_logs.                                         *)
(***************************************************************************)
\* the order in which analyze_logs runs the rules
RuleOrder ==
    <<"Suspicious Port", "High Frequency Connection", "Unusual Protocol", "Large Packet">>

RankOf(a) == CHOOSE k \in DOMAIN RuleOrder : RuleOrder[k] = a.threat_type

OfType(alerts, t) == SelectSeq(alerts, LAMBDA a : a.threat_type = t)

KeysOf(seq) == [i \in DOMAIN seq |-> KeyOf(seq[i])]

\* C11: the returned list holds the Suspicious Port alerts, then the High
\* Frequency Connection alerts, then the Unusual Protocol alerts, then the
\* Large Packet alerts; the alerts of each of the three per-row rules follow
\* the order of their rows in the file.
C11_FixedRuleOrder ==
    Done =>
        /\ \A k \in 1..(Len(all_alerts) - 1) :
              RankOf(all_alerts[k]) <= RankOf(all_alerts[k + 1])
        /\ KeysOf(OfType(all_alerts, "Suspicious Port"))
              = KeysOf(SelectSeq(csv, LAMBDA r : r.port \notin {22, 80, 443}))
        /\ KeysOf(OfType(all_alerts, "Unusual Protocol"))
              = KeysOf(SelectSeq(csv, LAMBDA r : ~KnownProtocol(r.protocol)))
        /\ KeysOf(OfType(all_alerts, "Large Packet"))
              = KeysOf(SelectSeq(csv, LAMBDA r : r.packet_size > 65536))

\* a file whose later rows come before its earlier row: the High Frequency
\* Connection alert of the later rows, then the Unusual Protocol alerts of
\* the later rows, then that of the earlier row
C11_Witness ==
    /\ Done
    /\ Len(csv) > 1
    /\ csv[1].timestamp = <<12, 1, 0>>
    /\ csv[Len(csv)].timestamp = <<12, 0, 0>>
    /\ Len(all_alerts) > 2
    /\ all_alerts[1].threat_type = "High Frequency Connection"
    /\ all_alerts[2].threat_type = "Unusual Protocol"
    /\ all_alerts[2].timestamp = <<12, 1, 0>>
    /\ all_alerts[Len(all_alerts)].timestamp = <<12, 0, 0>>

(***************************************************************************)
(* The summary of an alert list.                                           *)
(***************************************************************************)
RECURSIVE SumOf(_, _)
SumOf(f, S) ==
    IF S = {} THEN 0
    ELSE LET x == CHOOSE y \in S : TRUE IN f[x] + SumOf(f, S \ {x})

\* C13: the summary agrees with the list it is computed from: total_alerts is
\* the length of the list, unique_source_ips the number of distinct sources,
\* threat_breakdown counts the alerts of every type present, and its counts
\* add up to total_alerts; the summary of the empty list is all zero.
C13_SummaryConsistent ==
    Done =>
        LET counts == summary.threat_breakdown IN
        /\ summary.total_alerts = Len(all_alerts)
        /\ summary.unique_source_ips
              = Cardinality({all_alerts[k].source_ip : k \in DOMAIN all_alerts})
        /\ DOMAIN counts = {all_alerts[k].threat_type : k \in DOMAIN all_alerts}
        /\ \A t \in DOMAIN counts : counts[t] = Len(OfType(all_alerts, t))
        /\ SumOf(counts, DOMAIN counts) = summary.total_alerts
        /\ all_alerts = <<>> =>
              /\ summary.total_alerts = 0
              /\ summary.unique_source_ips = 0
              /\ DOMAIN counts = {}

\* several alerts of each of three types, from two sources
C13_Witness ==
    /\ Done
    /\ summary.unique_source_ips = 2
    /\ Cardinality(DOMAIN summary.threat_breakdown) = 3
    /\ \A t \in DOMAIN summary.threat_breakdown : summary.threat_breakdown[t] > 1
    /\ summary.total_alerts > connection_threshold

(***************************************************************************)
(* Faulty input.                                                           *)
(***************************************************************************)
Analyzed == pc = "done" /\ call.op = "analyze_logs"

NothingReturned ==
    /\ port_alerts = <<>>
    /\ freq_alerts = <<>>
    /\ protocol_alerts = <<>>
    /\ packet_alerts = <<>>
    /\ all_alerts = <<>>
    /\ summary = NoSummary

\* C12: when the header lacks any of the six required columns, the analysis
\* ends with the parse error, which names exactly the missing columns; no
\* detector has run and no alert is returned.  With all six columns present
\* there is no such error.
C12_SchemaRejection ==
    Analyzed =>
        LET absent == AllColumns \ header IN
        IF absent # {}
        THEN /\ error.type = "ValueError"
             /\ {error.missing[k] : k \in DOMAIN error.missing} = absent
             /\ Len(error.missing) = Cardinality(absent)
             /\ NothingReturned
        ELSE error.type # "ValueError"

\* a file with offending rows under a header without the protocol column
C12_Witness ==
    /\ Analyzed
    /\ header = AllColumns \ {"protocol"}
    /\ \E i \in DOMAIN csv : csv[i].port = 4444
    /\ Len(csv) > connection_threshold
    /\ error.type = "ValueError"

AlertFields == {"timestamp", "source_ip", "port", "threat_type", "description"}

\* an alert with its five fields, each holding a value, and one of the four
\* threat types
WellFormed(a) ==
    /\ DOMAIN a = AlertFields
    /\ a.threat_type \in {RuleOrder[k] : k \in DOMAIN RuleOrder}
    /\ a.timestamp \in {strftime(to_datetime(t)) : t \in Times}
    /\ a.source_ip # NaN
    /\ a.source_ip # ""
    /\ a.port \in Nat
    /\ a.description.text # ""

\* C14: every alert of a returned list has the five fields timestamp,
\* source_ip, port, threat_type and description, each holding a value, and
\* its threat type is one of the four kinds.
C14_AlertsWellFormed ==
    (Analyzed /\ error = NoError) =>
        \A k \in DOMAIN all_alerts : WellFormed(all_alerts[k])

\* the alerts of a file without empty cells are well-formed
WellFormedFromFilledCells ==
    (Analyzed /\ error = NoError /\ \A i \in DOMAIN csv : csv[i].source_ip # "") =>
        \A k \in DOMAIN all_alerts : WellFormed(all_alerts[k])

\* C15: a negative threshold is rejected with a ConfigError before any
\* detection, so no alert is produced under it.
C15_InvalidConfigRejected ==
    (pc = "done" /\ call.size_threshold < 0) =>
        /\ error.type = "ConfigError"
        /\ packet_alerts = <<>>

\* C16: when one of the four detectors raises, the analysis ends with that
\* detector's error and returns no list, whatever the earlier detectors have
\* collected; a list is returned only when no detector raised.
C16_FailureNotSwallowed ==
    (Analyzed /\ header = AllColumns) =>
        /\ raising # "none" =>
              /\ error = DetectorError(raising)
              /\ all_alerts = <<>>
              /\ summary = NoSummary
        /\ error = NoError => raising = "none"

\* the last detector raises after the first three have collected alerts
C16_Witness ==
    /\ Analyzed
    /\ raising = "detect_large_packets"
    /\ port_alerts # <<>>
    /\ freq_alerts # <<>>
    /\ protocol_alerts # <<>>
    /\ all_alerts = <<>>
    /\ error.type = "Exception"

(***************************************************************************)
(* The loop over the sources in the high-frequency detector.               *)
(***************************************************************************)
\* the scan of one source without the skip of small sources: every window of
\* the source is examined
ScanEveryWindow(df_sorted, source_ip) ==
    ScanWindows(source_ip, SelectSeq(df_sorted, LAMBDA r : r.source_ip = source_ip), 1)

\* the sources of the file with fewer rows than the threshold
SmallSources ==
    {ip \in {csv[i].source_ip : i \in DOMAIN csv} :
        Cardinality(RowsOf(ip)) < connection_threshold}

\* C19: skipping the sources with fewer rows than the threshold changes
\* nothing: on every sorted frame the scan of a source gives what examining
\* every window of it gives, and a skipped source has no window of more than
\* threshold rows.
C19_SkipChangesNothing ==
    Done =>
        /\ \A df_sorted \in sort_values(parse_csv_logs(csv)) :
              \A ip \in {csv[i].source_ip : i \in DOMAIN csv} :
                 ScanSource(df_sorted, ip) = ScanEveryWindow(df_sorted, ip)
        /\ \A ip \in SmallSources : Qualifying(ip) = {} /\ FreqAlertsOf(ip) = {}

\* a skipped source next to a source with an alert
C19_Witness ==
    /\ Done
    /\ SmallSources # {}
    /\ freq_alerts # <<>>
    /\ \E ip \in SmallSources : Cardinality(RowsOf(ip)) = 1

\* first row of the file with source ip
FirstRowOf(ip) == Min({i \in DOMAIN csv : csv[i].source_ip = ip})

\* C20: the High Frequency Connection alerts are listed by the first
\* appearance of their sources in the file, not by their timestamps.
C20_SourcesInFileOrder ==
    Done =>
        \A k, l \in DOMAIN freq_alerts :
            k < l => FirstRowOf(freq_alerts[k].source_ip) < FirstRowOf(freq_alerts[l].source_ip)

\* the source that appears first in the file has the later window
C20_Witness ==
    /\ Done
    /\ Len(freq_alerts) = 2
    /\ to_datetime(freq_alerts[1].timestamp) > to_datetime(freq_alerts[2].timestamp)
    /\ csv[1].source_ip = freq_alerts[1].source_ip

(***************************************************************************)
(* The detectors in any order.                                             *)
(***************************************************************************)
\* C17: in whatever order the detectors run, the frame they are given stays
\* the parsed file, and the lists joined in rule order are a list analyze_logs
\* returns when it runs the detectors one after the other.
C17_AnyOrderSameList ==
    /\ pc = "detecting" => frame = parse_csv_logs(csv)
    /\ (pc = "done" /\ call.op = "detectors") =>
          \E s \in sort_values(parse_csv_logs(csv)) :
              LET sequential == RunDetectors(parse_csv_logs(csv), s, "none") IN
              /\ sequential.error = NoError
              /\ all_alerts = sequential.all_alerts
              /\ port_alerts = sequential.port_alerts
              /\ freq_alerts = sequential.freq_alerts
              /\ protocol_alerts = sequential.protocol_alerts
              /\ packet_alerts = sequential.packet_alerts

\* the detectors finish in the reverse of the rule order on a file whose later
\* rows come first, and three kinds of alert are joined
C17_Witness ==
    /\ pc = "done"
    /\ call.op = "detectors"
    /\ ran[1] = "detect_large_packets"
    /\ ran[2] = "detect_unusual_protocols"
    /\ ran[Len(ran)] = "detect_suspicious_ports"
    /\ Len(csv) > 1
    /\ csv[1].timestamp = <<12, 1, 0>>
    /\ csv[Len(csv)].timestamp = <<12, 0, 0>>
    /\ freq_alerts # <<>>
    /\ protocol_alerts # <<>>
    /\ port_alerts # <<>>

(***************************************************************************)
(* POST /api/analyze.                                                      *)
(***************************************************************************)
Handled == pc = "done" /\ call.op = "POST /api/analyze"

\* a file name of at least four characters, the last four being ".csv"
NamedCsv(name) ==
    /\ Len(name) >= 4
    /\ name[Len(name) - 3] = "."
    /\ name[Len(name) - 2] = "c"
    /\ name[Len(name) - 1] = "s"
    /\ name[Len(name)] = "v"

\* C18: a request without a 'file' part is answered with the error
\* 'No file uploaded'; for such a request, and for one whose file name is
\* empty or does not end in .csv, the analyzer is not called and no alert is
\* inserted.
C18_NoFileNoAnalysis ==
    Handled =>
        /\ ~request.has_file =>
              /\ response.status = 400
              /\ response.error = "No file uploaded"
        /\ (~request.has_file \/ ~NamedCsv(request.filename)) =>
              /\ response.status = 400
              /\ ~response.success
              /\ invoked = 0
              /\ db = <<>>
              /\ all_alerts = <<>>
              /\ temp_file = "none"
        /\ (request.has_file /\ NamedCsv(request.filename)) => invoked = 1

\* a request without a 'file' part from a client whose file would raise alerts
C18_Witness ==
    /\ Handled
    /\ ~request.has_file
    /\ header = AllColumns
    /\ \E i \in DOMAIN csv : csv[i].port = 4444 /\ csv[i].source_ip # ""
    /\ Len(csv) > connection_threshold
    /\ response.error = "No file uploaded"
    /\ db = <<>>

\* a step of the handler
HandlerStep == pc = "upload" /\ pc' = "done" /\ call'.op = "POST /api/analyze"

\* C21: when the upload is accepted and analyze_logs fails (a missing column,
\* a detector that raises), the handler inserts nothing, the alerts table is
\* as it was and the response is an error; the temporary file is removed
\* whenever the upload was accepted, whether analyze_logs failed or not.
C21_PersistOnlyAfterAnalysis ==
    [][HandlerStep =>
          LET accepted == request'.has_file /\ NamedCsv(request'.filename)
              fails    == header # AllColumns \/ raising # "none"
          IN  /\ (accepted /\ fails) =>
                    /\ db' = db
                    /\ inserts' = <<>>
                    /\ response'.status = 500
                    /\ ~response'.success
                    /\ error' # NoError
              /\ (accepted /\ ~fails) =>
                    /\ response'.status = 200
                    /\ response'.success
                    /\ Len(inserts') = Len(all_alerts')
              /\ accepted => temp_file' = "removed"
              /\ ~accepted => temp_file' = "none"]_vars

\* the last detector raises after the others have collected alerts, with
\* alerts of an earlier upload in the table
C21_Witness ==
    /\ Handled
    /\ raising = "detect_large_packets"
    /\ error = DetectorError(raising)
    /\ port_alerts # <<>>
    /\ freq_alerts # <<>>
    /\ db \in EarlierUploads
    /\ db # <<>>
    /\ response.status = 500
    /\ temp_file = "removed"

\* the positions of a list of return values that hold True
Succeeded(results) == {k \in DOMAIN results : results[k]}

\* the alerts whose insert returned True, in the order of the list
StoredOf(alerts, results) ==
    [n \in 1..Cardinality(Succeeded(results)) |->
        alerts[CHOOSE k \in Succeeded(results) :
                  Cardinality({j \in Succeeded(results) : j <= k}) = n]]

\* C22: when the analysis of an upload succeeds, every alert of the list is
\* given to insert_alert once, in list order, whether earlier inserts failed
\* or not (an insert that fails on a fault of the database leaves every
\* other insert with the outcome its own alert gives it); alerts_stored is the number of inserts that returned True, between
\* 0 and alerts_generated; the table keeps its rows and grows by exactly the
\* alerts whose insert succeeded, also when it already holds equal rows.
C22_EveryAlertAttempted ==
    [][(HandlerStep /\ response'.status = 200) =>
          LET stored == response'.alerts_stored IN
          /\ response'.alerts_generated = Len(all_alerts')
          /\ Len(inserts') = Len(all_alerts')
          /\ \A k \in DOMAIN inserts' :
                inserts'[k] \/ all_alerts'[k].source_ip = NaN
                    \/ \A j \in DOMAIN inserts' :
                          j # k => (inserts'[j] <=> all_alerts'[j].source_ip # NaN)
          /\ stored = Cardinality(Succeeded(inserts'))
          /\ 0 <= stored
          /\ stored <= response'.alerts_generated
          /\ Len(db') = Len(db) + stored
          /\ SubSeq(db', 1, Len(db)) = db
          /\ SubSeq(db', Len(db) + 1, Len(db')) = StoredOf(all_alerts', inserts')]_vars

\* an insert fails, a later one succeeds, and the row it adds equals a row of
\* an earlier upload
C22_Witness ==
    /\ Handled
    /\ response.status = 200
    /\ \E k, l \in DOMAIN inserts : k < l /\ ~inserts[k] /\ inserts[l]
    /\ response.alerts_stored < response.alerts_generated
    /\ response.alerts_stored > 0
    /\ Len(db) > 1
    /\ \E i \in 2..Len(db) : db[i] = db[1]

====
